---------------------------- MODULE Spec2Model ----------------------------
(***************************************************************************)
(* Model of package csl of commonmeta-go (src/cmd/convert.go, lines        *)
(* 57-249): Read, Convert, Write and WriteList, with the collaborators     *)
(* they call (doiutils.ValidateDOI, dateutils.GetDateParts,                *)
(* Container.Pages, schemautils.JSONSchemaErrors, json.Marshal).           *)
(*                                                                         *)
(* A Go string is the sequence of its bytes (0..255): <<>> is "", \o       *)
(* concatenates, Str("abc") is the Go string literal "abc".  TLA+ strings  *)
(* are kept for what is not string data of the program: the name of the    *)
(* function called, the kind of a JSON value, an error value, a line of    *)
(* the standard output, the name of a schema.                              *)
(***************************************************************************)
EXTENDS Integers, Sequences, FiniteSets, TLC

(***************************************************************************)
(* Bounds of the explored inputs.                                          *)
(***************************************************************************)
MaxContributors == 2
MaxSubjects == 3
MaxList == 2
MaxTitles == 2

(***************************************************************************)
(* Generic helpers.                                                        *)
(***************************************************************************)
SeqsUpTo(S, n) == UNION { [1..k -> S] : k \in 0..n }

\* the printable ASCII characters from 0x20 to 0x7E in code order, the
\* grave accent (0x60) left out
Ascii == " !\"#$%&'()*+,-./0123456789:;<=>?@ABCDEFGHIJKLMNOPQRSTUVWXYZ[\\]^_abcdefghijklmnopqrstuvwxyz{|}~"

\* the byte of each printable ASCII character
AsciiCode ==
    [c \in { SubSeq(Ascii, k, k) : k \in 1..Len(Ascii) } |->
        LET k == CHOOSE j \in 1..Len(Ascii) : SubSeq(Ascii, j, j) = c
        IN  IF k <= 64 THEN 31 + k ELSE 32 + k]

\* the Go string of a string literal of printable ASCII characters
Str(s) == [i \in 1..Len(s) |-> AsciiCode[SubSeq(s, i, i)]] \o <<>>

RECURSIVE Join(_, _)
\* the items of a JSON object or array, separated by sep
Join(items, sep) ==
    IF items = <<>> THEN <<>>
    ELSE IF Len(items) = 1 THEN items[1]
    ELSE items[1] \o sep \o Join(Tail(items), sep)

(***************************************************************************)
(* utf8.DecodeRune and utf8.EncodeRune, as encoding/json uses them.        *)
(***************************************************************************)
\* s[i] is a continuation byte within lo..hi
Cont(s, i, lo, hi) == i <= Len(s) /\ s[i] >= lo /\ s[i] <= hi

\* the size utf8.DecodeRune(s[i:]) returns for a well-formed encoding, 0
\* where it returns (RuneError, 1): shortest form only, no surrogates,
\* nothing above U+10FFFF
RuneSize(s, i) ==
    LET b == s[i]
    IN  IF b < 128 THEN 1
        ELSE IF b >= 194 /\ b <= 223
        THEN IF Cont(s, i + 1, 128, 191) THEN 2 ELSE 0
        ELSE IF b >= 224 /\ b <= 239
        THEN IF /\ Cont(s, i + 1, IF b = 224 THEN 160 ELSE 128,
                                  IF b = 237 THEN 159 ELSE 191)
                /\ Cont(s, i + 2, 128, 191)
             THEN 3 ELSE 0
        ELSE IF b >= 240 /\ b <= 244
        THEN IF /\ Cont(s, i + 1, IF b = 240 THEN 144 ELSE 128,
                                  IF b = 244 THEN 143 ELSE 191)
                /\ Cont(s, i + 2, 128, 191)
                /\ Cont(s, i + 3, 128, 191)
             THEN 4 ELSE 0
        ELSE 0

\* utf8.EncodeRune: the bytes of rune r, those of U+FFFD for a surrogate
\* or a value out of range
EncodeRune(r) ==
    IF r < 0 \/ r > 1114111 \/ (r >= 55296 /\ r <= 57343) THEN <<239, 191, 189>>
    ELSE IF r < 128 THEN <<r>>
    ELSE IF r < 2048 THEN <<192 + (r \div 64), 128 + (r % 64)>>
    ELSE IF r < 65536
    THEN <<224 + (r \div 4096), 128 + ((r \div 64) % 64), 128 + (r % 64)>>
    ELSE <<240 + (r \div 262144), 128 + ((r \div 4096) % 64),
           128 + ((r \div 64) % 64), 128 + (r % 64)>>

(***************************************************************************)
(* encoding/json, writing a string (appendString with escapeHTML, as       *)
(* json.Marshal calls it; Go 1.22 and later write \b and \f).              *)
(***************************************************************************)
\* const hex = "0123456789abcdef"
HexDigits == Str("0123456789abcdef")

\* the text written for a byte below utf8.RuneSelf
EscapeByte(b) ==
    CASE b = 34 -> Str("\\\"")
      [] b = 92 -> Str("\\\\")
      [] b = 8 -> Str("\\b")
      [] b = 12 -> Str("\\f")
      [] b = 10 -> Str("\\n")
      [] b = 13 -> Str("\\r")
      [] b = 9 -> Str("\\t")
      [] b \notin {34, 92, 8, 12, 10, 13, 9} /\ (b < 32 \/ b \in {60, 62, 38}) ->
            Str("\\u00") \o <<HexDigits[(b \div 16) + 1], HexDigits[(b % 16) + 1]>>
      [] OTHER -> <<b>>

RECURSIVE EscapeFrom(_, _)
\* the text written for the bytes of s from position i on: an ill-formed
\* byte is written as the escape of U+FFFD, U+2028 and U+2029 as their
\* \u escapes, any other rune above ASCII is copied
EscapeFrom(s, i) ==
    IF i > Len(s) THEN <<>>
    ELSE IF s[i] < 128 THEN EscapeByte(s[i]) \o EscapeFrom(s, i + 1)
    ELSE IF RuneSize(s, i) = 0 THEN Str("\\ufffd") \o EscapeFrom(s, i + 1)
    ELSE IF s[i] = 226 /\ s[i + 1] = 128 /\ s[i + 2] \in {168, 169}
    THEN Str("\\u202") \o <<HexDigits[(s[i + 2] % 16) + 1]>> \o EscapeFrom(s, i + 3)
    ELSE SubSeq(s, i, i + RuneSize(s, i) - 1) \o EscapeFrom(s, i + RuneSize(s, i))

\* the JSON text of a string: escaped, in double quotes
Quote(s) == <<34>> \o EscapeFrom(s, 1) \o <<34>>

(***************************************************************************)
(* encoding/json, reading a string: the scanner accepts the literal, then  *)
(* unquoteBytes decodes it.                                                *)
(***************************************************************************)
\* the value of a hexadecimal digit of either case, -1 for another byte
HexVal(b) ==
    IF b >= 48 /\ b <= 57 THEN b - 48
    ELSE IF b >= 97 /\ b <= 102 THEN b - 87
    ELSE IF b >= 65 /\ b <= 70 THEN b - 55
    ELSE -1

\* getu4(s[i:]): the value of the \uXXXX escape at position i, -1 when
\* there is none
Getu4(s, i) ==
    IF /\ i + 5 <= Len(s) /\ s[i] = 92 /\ s[i + 1] = 117
       /\ \A k \in 2..5 : HexVal(s[i + k]) >= 0
    THEN 4096 * HexVal(s[i + 2]) + 256 * HexVal(s[i + 3])
         + 16 * HexVal(s[i + 4]) + HexVal(s[i + 5])
    ELSE -1

\* utf16.IsSurrogate
IsSurrogate(r) == r >= 55296 /\ r < 57344

\* utf16.DecodeRune: the rune of a surrogate pair, U+FFFD for anything else
DecodeSurrogates(r1, r2) ==
    IF r1 >= 55296 /\ r1 < 56320 /\ r2 >= 56320 /\ r2 < 57344
    THEN (r1 - 55296) * 1024 + (r2 - 56320) + 65536
    ELSE 65533

\* the byte a two-byte escape \c stands for
EscapedByte(c) ==
    CASE c = 98 -> 8
      [] c = 102 -> 12
      [] c = 110 -> 10
      [] c = 114 -> 13
      [] c = 116 -> 9
      [] OTHER -> c

RECURSIVE ValidFrom(_, _)
\* the scanner, inside a string literal at position i of text: a control
\* byte, an escape other than \" \\ \/ \b \f \n \r \t \uXXXX, bytes after
\* the closing quote and a missing closing quote are errors
ValidFrom(text, i) ==
    IF i > Len(text) THEN FALSE
    ELSE IF text[i] = 34 THEN i = Len(text)
    ELSE IF text[i] = 92
    THEN IF i + 1 > Len(text) THEN FALSE
         ELSE IF text[i + 1] \in {34, 92, 47, 98, 102, 110, 114, 116}
         THEN ValidFrom(text, i + 2)
         ELSE IF Getu4(text, i) >= 0 THEN ValidFrom(text, i + 6)
         ELSE FALSE
    ELSE IF text[i] < 32 THEN FALSE
    ELSE ValidFrom(text, i + 1)

\* text is one well-formed JSON string literal
ValidString(text) == Len(text) >= 2 /\ text[1] = 34 /\ ValidFrom(text, 2)

RECURSIVE UnquoteFrom(_, _)
\* unquoteBytes on the inside s of a well-formed literal, from position r:
\* escapes are decoded, surrogate pairs combined, a lone surrogate and an
\* ill-formed byte become U+FFFD
UnquoteFrom(s, r) ==
    IF r > Len(s) THEN <<>>
    ELSE IF s[r] = 92
    THEN IF s[r + 1] = 117
         THEN LET rr == Getu4(s, r)
                  dec == DecodeSurrogates(rr, Getu4(s, r + 6))
              IN  IF IsSurrogate(rr) /\ dec /= 65533
                  THEN EncodeRune(dec) \o UnquoteFrom(s, r + 12)
                  ELSE EncodeRune(rr) \o UnquoteFrom(s, r + 6)
         ELSE <<EscapedByte(s[r + 1])>> \o UnquoteFrom(s, r + 2)
    ELSE IF s[r] < 128 THEN <<s[r]>> \o UnquoteFrom(s, r + 1)
    ELSE IF RuneSize(s, r) = 0 THEN EncodeRune(65533) \o UnquoteFrom(s, r + 1)
    ELSE SubSeq(s, r, r + RuneSize(s, r) - 1) \o UnquoteFrom(s, r + RuneSize(s, r))

\* json.Unmarshal of a string literal: ok tells whether the literal is
\* accepted, s is the string it stands for
Unquote(text) ==
    IF ValidString(text)
    THEN [ok |-> TRUE, s |-> UnquoteFrom(SubSeq(text, 2, Len(text) - 1), 1)]
    ELSE [ok |-> FALSE, s |-> <<>>]

(***************************************************************************)
(* commonmeta.Data, as far as package csl reads it.                        *)
(***************************************************************************)
EmptyContainer == [Title |-> <<>>, Issue |-> <<>>, Volume |-> <<>>,
                   FirstPage |-> <<>>, LastPage |-> <<>>]

EmptyDate == [Published |-> <<>>, Submitted |-> <<>>, Accessed |-> <<>>]

\* the zero value of commonmeta.Data (var data commonmeta.Data)
EmptyData ==
    [ID |-> <<>>, Type |-> <<>>, Version |-> <<>>, Language |-> <<>>, URL |-> <<>>,
     Container |-> EmptyContainer, Subjects |-> <<>>, Titles |-> <<>>,
     Contributors |-> <<>>, Date |-> EmptyDate, Descriptions |-> <<>>,
     Publisher |-> [Name |-> <<>>]]

\* Container.Pages(): the page range rendered from the first and last page
Pages(container) ==
    IF container.FirstPage = <<>> THEN container.LastPage
    ELSE IF container.LastPage = <<>> THEN container.FirstPage
    ELSE container.FirstPage \o Str("-") \o container.LastPage

(***************************************************************************)
(* doiutils.ValidateDOI: the bare DOI of a DOI-bearing identifier, or ""   *)
(* when the identifier holds none.  Given on the identifiers explored.     *)
(***************************************************************************)
ValidateDOI(id) ==
    CASE id = Str("10.5555/12345678") -> Str("10.5555/12345678")
      [] id = Str("https://doi.org/10.5555/12345678") -> Str("10.5555/12345678")
      [] id = Str("doi:10.5555/12345678") -> Str("10.5555/12345678")
      [] OTHER -> <<>>

(***************************************************************************)
(* dateutils.GetDateParts: "YYYY", "YYYY-MM" and "YYYY-MM-DD" give the     *)
(* date parts with the precision of the string; anything else gives an     *)
(* empty result.  A slice is a record: nil tells the nil slice from one    *)
(* that was made, elems are its elements.  A map[string][][]int is a       *)
(* record: nil tells the nil map from a map that was made, entries are its *)
(* key/value pairs.                                                        *)
(***************************************************************************)
NilSlice == [nil |-> TRUE, elems |-> <<>>]

Slice(elems) == [nil |-> FALSE, elems |-> elems]

IsDigit(c) == c >= 48 /\ c <= 57

DigitVal(c) == c - 48

AllDigits(s, from, to) == \A i \in from..to : IsDigit(s[i])

RECURSIVE Atoi(_, _, _)
\* strconv.Atoi of s[from..to], all digits
Atoi(s, from, to) ==
    IF to < from THEN 0
    ELSE 10 * Atoi(s, from, to - 1) + DigitVal(s[to])

\* the byte of the separator "-"
Dash == Str("-")[1]

DateParts(s) ==
    IF Len(s) = 4 /\ AllDigits(s, 1, 4)
    THEN Slice(<< Slice(<<Atoi(s, 1, 4)>>) >>)
    ELSE IF Len(s) = 7 /\ AllDigits(s, 1, 4) /\ s[5] = Dash /\ AllDigits(s, 6, 7)
    THEN Slice(<< Slice(<<Atoi(s, 1, 4), Atoi(s, 6, 7)>>) >>)
    ELSE IF /\ Len(s) = 10 /\ AllDigits(s, 1, 4) /\ s[5] = Dash
            /\ AllDigits(s, 6, 7) /\ s[8] = Dash /\ AllDigits(s, 9, 10)
    THEN Slice(<< Slice(<<Atoi(s, 1, 4), Atoi(s, 6, 7), Atoi(s, 9, 10)>>) >>)
    ELSE Slice(<<>>)

NilMap == [nil |-> TRUE, entries |-> <<>>]

GetDateParts(s) == [nil |-> FALSE, entries |-> << <<Str("date-parts"), DateParts(s)>> >>]

(***************************************************************************)
(* type CSL, type Author, CMToCSLMappings.                                 *)
(***************************************************************************)
\* the zero value of CSL (var csl CSL)
EmptyCSL ==
    [ID |-> <<>>, Type |-> <<>>, Abstract |-> <<>>, Accessed |-> NilMap,
     Author |-> <<>>, ContainerTitle |-> <<>>, DOI |-> <<>>, ISSN |-> <<>>,
     Issue |-> <<>>, Issued |-> NilMap, Keyword |-> <<>>, Language |-> <<>>,
     License |-> <<>>, Page |-> <<>>, Publisher |-> <<>>, Submitted |-> NilMap,
     Title |-> <<>>, URL |-> <<>>, Version |-> <<>>, Volume |-> <<>>]

\* the zero value of Author
EmptyAuthor == [Given |-> <<>>, Family |-> <<>>, Literal |-> <<>>]

\* the map literal, as pairs <<canonical type, CSL type>>
CMToCSLPairs ==
    { <<Str("Article"), Str("article")>>, <<Str("JournalArticle"), Str("article-journal")>>,
      <<Str("Book"), Str("book")>>, <<Str("BookChapter"), Str("chapter")>>,
      <<Str("Collection"), Str("collection")>>, <<Str("Dataset"), Str("dataset")>>,
      <<Str("Document"), Str("document")>>, <<Str("Entry"), Str("entry")>>, <<Str("Event"), Str("event")>>,
      <<Str("Figure"), Str("figure")>>, <<Str("Image"), Str("graphic")>>,
      <<Str("LegalDocument"), Str("legal_case")>>, <<Str("Manuscript"), Str("manuscript")>>,
      <<Str("Map"), Str("map")>>, <<Str("Audiovisual"), Str("motion_picture")>>,
      <<Str("Patent"), Str("patent")>>, <<Str("Performance"), Str("performance")>>,
      <<Str("Journal"), Str("periodical")>>,
      <<Str("PersonalCommunication"), Str("personal_communication")>>,
      <<Str("Report"), Str("report")>>, <<Str("Review"), Str("review")>>,
      <<Str("Software"), Str("software")>>, <<Str("Presentation"), Str("speech")>>,
      <<Str("Standard"), Str("standard")>>, <<Str("Dissertation"), Str("thesis")>>,
      <<Str("WebPage"), Str("webpage")>> }

MappedTypes == { p[1] : p \in CMToCSLPairs }

\* CMToCSLMappings[t]: Go's map index gives "" for a missing key
CMToCSLMappings(t) ==
    IF t \in MappedTypes
    THEN (CHOOSE p \in CMToCSLPairs : p[1] = t)[2]
    ELSE <<>>

(***************************************************************************)
(* Read: only the identifier of the CSL content reaches the record.        *)
(***************************************************************************)
\* a plausible slip: the wrong field of content is copied
ReadTitleAsID(content) ==
    [data |-> [EmptyData EXCEPT !.ID = content.Title], err |-> "nil"]

\* Read(content) (commonmeta.Data, error)
Read(content) == [data |-> [EmptyData EXCEPT !.ID = content.ID], err |-> "nil"]

(***************************************************************************)
(* Convert, statement by statement.                                        *)
(***************************************************************************)
\* a plausible slip: the Software override is tested after the default
CslTypeNoOverride(data) ==
    IF CMToCSLMappings(data.Type) = <<>> THEN Str("Document")
    ELSE CMToCSLMappings(data.Type)

\* csl.Type: the table entry, "book" for versioned software, else "Document"
CslType(data) ==
    LET mapped == CMToCSLMappings(data.Type)
    IN  IF data.Type = Str("Software") /\ data.Version /= <<>> THEN Str("book")
        ELSE IF mapped = <<>> THEN Str("Document")
        ELSE mapped

RECURSIVE KeywordLoopSeparated(_, _, _)
\* a plausible "fix": a separator between the subjects
KeywordLoopSeparated(subjects, i, keyword) ==
    IF i > Len(subjects) THEN keyword
    ELSE IF subjects[i].Subject /= <<>>
    THEN KeywordLoopSeparated(subjects, i + 1,
            IF keyword = <<>> THEN subjects[i].Subject
            ELSE keyword \o Str(", ") \o subjects[i].Subject)
    ELSE KeywordLoopSeparated(subjects, i + 1, keyword)

RECURSIVE KeywordLoop(_, _, _)
\* for _, subject := range data.Subjects, from index i with csl.Keyword = keyword
KeywordLoop(subjects, i, keyword) ==
    IF i > Len(subjects) THEN keyword
    ELSE IF subjects[i].Subject /= <<>>
    THEN KeywordLoop(subjects, i + 1, keyword \o subjects[i].Subject)
    ELSE KeywordLoop(subjects, i + 1, keyword)

\* slices.Contains(contributor.ContributorRoles, "Author")
HasAuthorRole(contributor) ==
    \E i \in 1..Len(contributor.ContributorRoles) :
        contributor.ContributorRoles[i] = Str("Author")

\* a plausible slip: the personal branch also fills the literal name
AuthorOfBothNames(contributor) ==
    IF contributor.FamilyName /= <<>>
    THEN [Given |-> contributor.GivenName, Family |-> contributor.FamilyName,
          Literal |-> contributor.Name]
    ELSE [EmptyAuthor EXCEPT !.Literal = contributor.Name]

\* the Author literal built for a contributor that has the "Author" role
AuthorOf(contributor) ==
    IF contributor.FamilyName /= <<>>
    THEN [EmptyAuthor EXCEPT !.Given = contributor.GivenName,
                             !.Family = contributor.FamilyName]
    ELSE [EmptyAuthor EXCEPT !.Literal = contributor.Name]

RECURSIVE AuthorLoopUnfiltered(_, _, _)
\* a plausible slip: the role test is dropped
AuthorLoopUnfiltered(contributors, i, authors) ==
    IF i > Len(contributors) THEN authors
    ELSE AuthorLoopUnfiltered(contributors, i + 1,
                              Append(authors, AuthorOf(contributors[i])))

RECURSIVE AuthorLoop(_, _, _)
\* for _, contributor := range data.Contributors, from index i with
\* csl.Author = authors
AuthorLoop(contributors, i, authors) ==
    IF i > Len(contributors) THEN authors
    ELSE IF HasAuthorRole(contributors[i])
    THEN AuthorLoop(contributors, i + 1,
                    Append(authors, AuthorOf(contributors[i])))
    ELSE AuthorLoop(contributors, i + 1, authors)

\* a plausible slip: the emptiness test is dropped
DateFieldAlways(s) == GetDateParts(s)

\* if s != "" { field = dateutils.GetDateParts(s) }, field being the nil map
DateField(s) == IF s /= <<>> THEN GetDateParts(s) ELSE NilMap

\* a plausible slip: the normalized DOI is also stored as the identifier
ConvertNormalizedID(data) ==
    [csl |->
        [EmptyCSL EXCEPT
            !.ID = ValidateDOI(data.ID),
            !.Type = CslType(data),
            !.ContainerTitle = data.Container.Title,
            !.DOI = ValidateDOI(data.ID),
            !.Issue = data.Container.Issue,
            !.Keyword = KeywordLoop(data.Subjects, 1, <<>>),
            !.Language = data.Language,
            !.Page = Pages(data.Container),
            !.Title = IF Len(data.Titles) > 0 THEN data.Titles[1].Title ELSE <<>>,
            !.URL = data.URL,
            !.Volume = data.Container.Volume,
            !.Author = AuthorLoop(data.Contributors, 1, <<>>),
            !.Issued = DateField(data.Date.Published),
            !.Submitted = DateField(data.Date.Submitted),
            !.Accessed = DateField(data.Date.Accessed),
            !.Abstract = IF Len(data.Descriptions) > 0
                         THEN data.Descriptions[1].Description ELSE <<>>,
            !.Publisher = data.Publisher.Name,
            !.Version = data.Version],
     err |-> "nil"]

\* Convert(data) (CSL, error): every assignment to csl, and the nil error
Convert(data) ==
    [csl |->
        [EmptyCSL EXCEPT
            !.ID = data.ID,
            !.Type = CslType(data),
            !.ContainerTitle = data.Container.Title,
            !.DOI = ValidateDOI(data.ID),
            !.Issue = data.Container.Issue,
            !.Keyword = KeywordLoop(data.Subjects, 1, <<>>),
            !.Language = data.Language,
            !.Page = Pages(data.Container),
            !.Title = IF Len(data.Titles) > 0 THEN data.Titles[1].Title ELSE <<>>,
            !.URL = data.URL,
            !.Volume = data.Container.Volume,
            !.Author = AuthorLoop(data.Contributors, 1, <<>>),
            !.Issued = DateField(data.Date.Published),
            !.Submitted = DateField(data.Date.Submitted),
            !.Accessed = DateField(data.Date.Accessed),
            !.Abstract = IF Len(data.Descriptions) > 0
                         THEN data.Descriptions[1].Description ELSE <<>>,
            !.Publisher = data.Publisher.Name,
            !.Version = data.Version],
     err |-> "nil"]

(***************************************************************************)
(* json.Marshal of a CSL value, following the struct tags: the members in  *)
(* field order, a member <<key, kind, text>>, omitempty members left out   *)
(* when empty.  key is the name of the member, text the JSON text of its   *)
(* value: a string escaped and quoted, an object or an array rendered.     *)
(***************************************************************************)
Member(key, kind, text) == << <<Str(key), kind, text>> >>

OmitEmpty(empty, member) == IF empty THEN <<>> ELSE member

StringMember(key, s) == OmitEmpty(s = <<>>, Member(key, "string", Quote(s)))

RenderStringField(key, s) ==
    IF s = <<>> THEN <<>> ELSE << Quote(Str(key)) \o Str(":") \o Quote(s) >>

\* an Author value: {"given":..,"family":..,"literal":..}, empty fields left out
RenderAuthor(author) ==
    Str("{") \o Join(RenderStringField("given", author.Given)
                     \o RenderStringField("family", author.Family)
                     \o RenderStringField("literal", author.Literal), Str(","))
    \o Str("}")

RenderAuthors(authors) ==
    Str("[") \o Join([i \in 1..Len(authors) |-> RenderAuthor(authors[i])], Str(","))
    \o Str("]")

\* a []int value: null for the nil slice
RenderInts(ints) ==
    IF ints.nil THEN Str("null")
    ELSE Str("[")
         \o Join([i \in 1..Len(ints.elems) |-> Str(ToString(ints.elems[i]))], Str(","))
         \o Str("]")

\* a [][]int value: null for the nil slice
RenderIntMatrix(rows) ==
    IF rows.nil THEN Str("null")
    ELSE Str("[")
         \o Join([i \in 1..Len(rows.elems) |-> RenderInts(rows.elems[i])], Str(","))
         \o Str("]")

\* a < b as Go compares strings: byte by byte, a proper prefix first
LessString(a, b) ==
    \E i \in 1..Len(b) :
        /\ \A j \in 1..(i - 1) : j <= Len(a) /\ a[j] = b[j]
        /\ (i > Len(a) \/ a[i] < b[i])

RECURSIVE SortedByKey(_)
\* the entries of a map in the order of their keys
SortedByKey(entries) ==
    IF entries = <<>> THEN <<>>
    ELSE LET least == CHOOSE i \in 1..Len(entries) :
                        \A j \in 1..Len(entries) :
                            j /= i => LessString(entries[i][1], entries[j][1])
         IN  <<entries[least]>>
             \o SortedByKey(SelectSeq(entries, LAMBDA e : e /= entries[least]))

\* the members of a map that was made, in the order written
RenderEntries(entries) ==
    Join([i \in 1..Len(entries) |->
            Quote(entries[i][1]) \o Str(":") \o RenderIntMatrix(entries[i][2])],
         Str(","))

\* a map[string][][]int value: null for the nil map, else the entries with
\* their keys sorted
RenderMap(m) ==
    IF m.nil THEN Str("null")
    ELSE Str("{") \o RenderEntries(SortedByKey(m.entries)) \o Str("}")

MapMember(key, m) ==
    OmitEmpty(Len(m.entries) = 0, Member(key, "object", RenderMap(m)))

\* the members of the JSON object of a CSL value
CSLMembers(csl) ==
    Member("id", "string", Quote(csl.ID))
    \o Member("type", "string", Quote(csl.Type))
    \o StringMember("abstract", csl.Abstract)
    \o MapMember("accessed", csl.Accessed)
    \o OmitEmpty(Len(csl.Author) = 0,
                 Member("author", "array", RenderAuthors(csl.Author)))
    \o StringMember("container-title", csl.ContainerTitle)
    \o StringMember("DOI", csl.DOI)
    \o StringMember("ISSN", csl.ISSN)
    \o StringMember("issue", csl.Issue)
    \o MapMember("issued", csl.Issued)
    \o StringMember("keyword", csl.Keyword)
    \o StringMember("language", csl.Language)
    \o StringMember("license", csl.License)
    \o StringMember("page", csl.Page)
    \o StringMember("publisher", csl.Publisher)
    \o MapMember("submitted", csl.Submitted)
    \o StringMember("title", csl.Title)
    \o StringMember("URL", csl.URL)
    \o StringMember("version", csl.Version)
    \o StringMember("volume", csl.Volume)

\* []byte values: nil (no bytes), or the JSON text of an object, of an
\* array of objects, or of null
NilBytes == [kind |-> "nil", members |-> <<>>, items |-> <<>>]

NullBytes == [kind |-> "null", members |-> <<>>, items |-> <<>>]

ObjectBytes(members) == [kind |-> "object", members |-> members, items |-> <<>>]

ArrayBytes(items) == [kind |-> "array", members |-> <<>>, items |-> items]

\* json.Marshal(csl) when it succeeds
MarshalCSL(csl) == ObjectBytes(CSLMembers(csl))

\* json.Marshal(cslList) when it succeeds: a nil slice is encoded as null
MarshalCSLList(cslList) ==
    IF cslList = <<>> THEN NullBytes
    ELSE ArrayBytes([i \in 1..Len(cslList) |-> CSLMembers(cslList[i])])

(***************************************************************************)
(* json.Unmarshal into a content value (fields id and title).              *)
(***************************************************************************)
\* the zero value of content
NoContent == [ID |-> <<>>, Title |-> <<>>]

\* the lower-case form of an ASCII letter, any other byte unchanged
Lower(b) == IF b >= 65 /\ b <= 90 THEN b + 32 ELSE b

\* a member name matches a field name exactly or, failing that, without
\* regard to case
FoldEq(key, name) ==
    /\ Len(key) = Len(name)
    /\ \A i \in 1..Len(key) : Lower(key[i]) = Lower(name[i])

\* the positions of the members that are decoded into the field name
MembersOf(members, name) ==
    { i \in 1..Len(members) : FoldEq(members[i][1], Str(name)) }

\* the value of the string field name after the members were decoded in
\* order: that of the last string member of the field, "" when there is none
StringOf(members, name) ==
    LET strings == { i \in MembersOf(members, name) : members[i][2] = "string" }
    IN  IF strings = {} THEN <<>>
        ELSE Unquote(members[CHOOSE i \in strings : \A j \in strings : j <= i][3]).s

\* every string literal of the object is accepted by the scanner
ValidMembers(members) ==
    \A i \in 1..Len(members) :
        members[i][2] = "string" => Unquote(members[i][3]).ok

\* a member of a string field holds a value that is neither a string nor null
TypeMismatch(members) ==
    \E i \in MembersOf(members, "id") \cup MembersOf(members, "title") :
        members[i][2] \notin {"string", "null"}

\* json.Unmarshal(bytes, &content): a syntax error leaves content untouched,
\* a value of the wrong type is skipped and reported, null is a no-op
UnmarshalContent(bytes) ==
    IF bytes.kind = "nil"
    THEN [content |-> NoContent, err |-> "unexpected end of JSON input"]
    ELSE IF bytes.kind = "null" THEN [content |-> NoContent, err |-> "nil"]
    ELSE IF bytes.kind = "array"
    THEN [content |-> NoContent, err |-> "json: cannot unmarshal array"]
    ELSE IF ~ValidMembers(bytes.members)
    THEN [content |-> NoContent, err |-> "invalid character in string literal"]
    ELSE [content |-> [ID |-> StringOf(bytes.members, "id"),
                       Title |-> StringOf(bytes.members, "title")],
          err |-> IF TypeMismatch(bytes.members)
                  THEN "json: cannot unmarshal into Go struct field"
                  ELSE "nil"]

(***************************************************************************)
(* schemautils.JSONSchemaErrors and gojsonschema.Result.  The schema       *)
(* documents are not part of the engine: the verdict on a document is the  *)
(* validator's answer, an input of the call.                               *)
(***************************************************************************)
JSONSchemaErrors(document, schema, verdict) == [errors |-> verdict]

\* Result.Valid(): no error was recorded
Valid(validation) == Len(validation.errors) = 0

\* Result.Errors()
Errors(validation) == validation.errors

\* what fmt.Println(err) adds to the standard output
Println(stdout, e) == IF e /= "nil" THEN Append(stdout, e) ELSE stdout

(***************************************************************************)
(* Write and WriteList.  json.Marshal returns a nil error for every CSL    *)
(* value and every []CSL value: the fields are strings, maps of integer    *)
(* slices and Author values of strings, and ill-formed UTF-8 is replaced,  *)
(* not refused.  verdict is the validator's answer, an input of the call.  *)
(* The result holds the two values returned and what the call did on the   *)
(* way: the value converted, the lines printed, the documents handed to    *)
(* the validator.                                                          *)
(***************************************************************************)
\* a plausible slip: the document is returned whether valid or not
WriteValidateKeepsOutput(conv, bytes, marshalErr, verdict) ==
    LET validation == JSONSchemaErrors(bytes, "csl-data", verdict)
    IN  [output |-> bytes,
         errors |-> IF ~Valid(validation) THEN Errors(validation) ELSE <<>>,
         csl |-> conv.csl,
         stdout |-> Println(Println(<<>>, conv.err), marshalErr),
         validated |-> << [document |-> bytes, schema |-> "csl-data"] >>]

\* Write from the schema validation on: nil and the errors when the
\* document is not valid, else the document and nil
WriteValidate(conv, bytes, marshalErr, verdict) ==
    LET validation == JSONSchemaErrors(bytes, "csl-data", verdict)
    IN  [output |-> IF ~Valid(validation) THEN NilBytes ELSE bytes,
         errors |-> IF ~Valid(validation) THEN Errors(validation) ELSE <<>>,
         csl |-> conv.csl,
         stdout |-> Println(Println(<<>>, conv.err), marshalErr),
         validated |-> << [document |-> bytes, schema |-> "csl-data"] >>]

\* Write from json.Marshal(csl) on: the bytes and the nil error
WriteMarshal(conv, verdict) ==
    WriteValidate(conv, MarshalCSL(conv.csl), "nil", verdict)

\* Write(data) ([]byte, []gojsonschema.ResultError)
Write(data, verdict) == WriteMarshal(Convert(data), verdict)

\* a plausible slip: each converted record is put in front of the list
CollectInFront(acc, conv) ==
    [cslList |-> <<conv.csl>> \o acc.cslList,
     stdout |-> Println(acc.stdout, conv.err)]

\* the body of the loop: the error is printed, the CSL value appended
Collect(acc, conv) ==
    [cslList |-> Append(acc.cslList, conv.csl),
     stdout |-> Println(acc.stdout, conv.err)]

RECURSIVE ConvertLoop(_, _, _)
\* for _, data := range list, from index i; acc holds cslList and the
\* lines printed so far
ConvertLoop(list, i, acc) ==
    IF i > Len(list) THEN acc
    ELSE ConvertLoop(list, i + 1, Collect(acc, Convert(list[i])))

\* WriteList from the schema validation on
WriteListValidate(loop, bytes, marshalErr, verdict) ==
    LET validation == JSONSchemaErrors(bytes, "csl-data", verdict)
    IN  [output |-> IF ~Valid(validation) THEN NilBytes ELSE bytes,
         errors |-> IF ~Valid(validation) THEN Errors(validation) ELSE <<>>,
         cslList |-> loop.cslList,
         stdout |-> Println(loop.stdout, marshalErr),
         validated |-> << [document |-> bytes, schema |-> "csl-data"] >>]

\* WriteList from json.Marshal(cslList) on: the bytes and the nil error
WriteListMarshal(loop, verdict) ==
    WriteListValidate(loop, MarshalCSLList(loop.cslList), "nil", verdict)

\* WriteList(list) ([]byte, []gojsonschema.ResultError)
WriteList(list, verdict) ==
    WriteListMarshal(ConvertLoop(list, 1, [cslList |-> <<>>, stdout |-> <<>>]),
                     verdict)

(***************************************************************************)
(* The inputs explored.                                                    *)
(***************************************************************************)
Types == {<<>>, Str("JournalArticle"), Str("Book"), Str("Software"), Str("Document"), Str("Dataset"),
          Str("Instrument"), Str("Other")}

Versions == {<<>>, Str("1.0")}

\* an identifier with control characters, U+2028, a two-byte and a four-byte
\* rune
ControlID ==
    Str("id") \o <<1, 8, 12>> \o <<226, 128, 168>> \o <<195, 169>>
    \o <<240, 159, 152, 128>>

\* an identifier that is not well-formed UTF-8: a byte 0xFF and the
\* three-byte form of a surrogate
IllFormedID == Str("x") \o <<255>> \o <<237, 160, 128>> \o Str("y")

IDs == {<<>>, Str("10.5555/12345678"), Str("https://doi.org/10.5555/12345678"),
        Str("doi:10.5555/12345678"), Str("<not-a-doi>"), ControlID, IllFormedID}

DateStrings ==
    { <<>>,
      Str("2020"),
      Str("2020-05"),
      Str("2021-03-01"),
      Str("next") }

RoleLists == { <<>>, <<Str("Author")>>, <<Str("Editor")>>, <<Str("Editor"), Str("Author")>> }

Names ==
    { [GivenName |-> Str("J"), FamilyName |-> Str("Smith"), Name |-> <<>>],
      [GivenName |-> Str("A"), FamilyName |-> Str("O\"Neil"), Name |-> Str("A O\"Neil")],
      [GivenName |-> <<>>, FamilyName |-> <<>>, Name |-> Str("AT&T")],
      [GivenName |-> Str("Jane"), FamilyName |-> <<>>, Name |-> <<>>] }

ContributorValues ==
    { [GivenName |-> n.GivenName, FamilyName |-> n.FamilyName, Name |-> n.Name,
       ContributorRoles |-> r] : n \in Names, r \in RoleLists }

SubjectValues == { [Subject |-> s] : s \in {<<>>, Str("a"), Str("b")} }

TitleValues == { [Title |-> t] : t \in {Str("Example"), Str("<i>2</i>") \o <<9>> \o Str("B\\C")} }

DescriptionValues == { [Description |-> t] : t \in {Str("Summary"), Str("More")} }

ContainerValues ==
    { EmptyContainer,
      [Title |-> Str("Journal"), Issue |-> Str("2"), Volume |-> Str("7"),
       FirstPage |-> Str("10"), LastPage |-> Str("19")],
      [EmptyContainer EXCEPT !.FirstPage = Str("e5")] }

\* records that differ in type, version and identifier
TypeRecords ==
    { [EmptyData EXCEPT !.Type = t, !.Version = v, !.ID = id] :
        t \in Types, v \in Versions, id \in IDs }

SubjectRecords ==
    { [EmptyData EXCEPT !.Subjects = s] : s \in SeqsUpTo(SubjectValues, MaxSubjects) }

ContributorRecords ==
    { [EmptyData EXCEPT !.Contributors = c] :
        c \in SeqsUpTo(ContributorValues, MaxContributors) }

DateRecords ==
    { [EmptyData EXCEPT !.Date = [Published |-> p, Submitted |-> s, Accessed |-> a]] :
        p \in DateStrings, s \in DateStrings, a \in DateStrings }

TextRecords ==
    { [EmptyData EXCEPT !.ID = id, !.Titles = t, !.Descriptions = d, !.Container = c,
                        !.Publisher = [Name |-> IF c = EmptyContainer THEN <<>> ELSE Str("Press")],
                        !.Language = IF c = EmptyContainer THEN <<>> ELSE Str("en"),
                        !.URL = IF c = EmptyContainer THEN <<>> ELSE Str("https://example.org/1")] :
        id \in {Str("<not-a-doi>"), Str("10.5555/12345678")},
        t \in SeqsUpTo(TitleValues, MaxTitles),
        d \in SeqsUpTo(DescriptionValues, MaxTitles),
        c \in ContainerValues }

\* the record of the end-to-end scenario
ScenarioRecord ==
    [EmptyData EXCEPT
        !.ID = Str("10.5555/12345678"), !.Type = Str("JournalArticle"),
        !.Titles = << [Title |-> Str("Example")] >>,
        !.Contributors = << [GivenName |-> Str("J"), FamilyName |-> Str("Smith"), Name |-> <<>>,
                             ContributorRoles |-> <<Str("Author")>>] >>,
        !.Date = [EmptyDate EXCEPT !.Published =
                    Str("2021-03-01")]]

Records ==
    TypeRecords \cup SubjectRecords \cup ContributorRecords \cup DateRecords
    \cup TextRecords \cup {ScenarioRecord}

ListRecords ==
    { EmptyData, ScenarioRecord,
      [EmptyData EXCEPT !.ID = Str("<not-a-doi>"), !.Type = Str("Software"), !.Version = Str("1.0")],
      [EmptyData EXCEPT !.Type = Str("Dataset"), !.Subjects = << [Subject |-> Str("a")] >>] }

Lists == SeqsUpTo(ListRecords, MaxList)

Verdicts == { <<>>, <<"(root): Invalid type">>,
              <<"type: Does not match pattern", "id: id is required">> }

\* the inputs of a run: a record, or a list of records
Inputs ==
    { [data |-> d, list |-> <<>>] : d \in Records }
    \cup { [data |-> EmptyData, list |-> l] : l \in Lists }

(***************************************************************************)
(* The state: the record and the list at hand, the call made last, its     *)
(* results and what it did on the way.                                     *)
(***************************************************************************)
VARIABLES
    data,       \* the record at hand, the argument of Convert and Write
    list,       \* the list at hand, the argument of WriteList
    op,         \* the function called last
    content,    \* the content handed to Read
    csl,        \* the CSL value of the conversion of data
    cslList,    \* the CSL values WriteList collected
    readData,   \* the record Read returned
    err,        \* the error Convert or Read returned
    output,     \* the bytes Write or WriteList returned
    errors,     \* the validation errors Write or WriteList returned
    stdout,     \* the lines the last call printed
    validated   \* the documents the last call handed to the validator

vars == <<data, list, op, content, csl, cslList, readData, err, output,
          errors, stdout, validated>>

Init ==
    /\ \E in \in Inputs : data = in.data /\ list = in.list
    /\ op = "none"
    /\ content = NoContent
    /\ csl = EmptyCSL
    /\ cslList = <<>>
    /\ readData = EmptyData
    /\ err = "nil"
    /\ output = NilBytes
    /\ errors = <<>>
    /\ stdout = <<>>
    /\ validated = <<>>

\* the record the caller holds: the one Read returned, once Read was called
InHand == IF op = "Read" THEN readData ELSE data

\* a call of Convert on the record in hand
ConvertCall ==
    \E conv \in {Convert(InHand)} :
        /\ op' = "Convert"
        /\ data' = InHand
        /\ csl' = conv.csl
        /\ err' = conv.err
        /\ content' = NoContent
        /\ readData' = EmptyData
        /\ cslList' = <<>>
        /\ output' = NilBytes
        /\ errors' = <<>>
        /\ stdout' = <<>>
        /\ validated' = <<>>
        /\ list' = <<>>

\* a call of Read on the content decoded from the encoding of the CSL value
\* that Convert returned
ReadCall ==
    /\ op = "Convert"
    /\ \E decoded \in {UnmarshalContent(MarshalCSL(csl))} :
          \E r \in {Read(decoded.content)} :
              /\ op' = "Read"
              /\ content' = decoded.content
              /\ readData' = r.data
              /\ err' = r.err
    /\ UNCHANGED <<data, list, csl, cslList, output, errors, stdout, validated>>

\* a call of Write on the record in hand
WriteCall ==
    \E verdict \in Verdicts :
        \E w \in {Write(InHand, verdict)} :
            /\ op' = "Write"
            /\ data' = InHand
            /\ csl' = w.csl
            /\ err' = "nil"
            /\ content' = NoContent
            /\ readData' = EmptyData
            /\ cslList' = <<>>
            /\ output' = w.output
            /\ errors' = w.errors
            /\ stdout' = w.stdout
            /\ validated' = w.validated
            /\ list' = <<>>

\* a call of WriteList on the list at hand
WriteListCall ==
    \E verdict \in Verdicts :
        \E w \in {WriteList(list, verdict)} :
            /\ op' = "WriteList"
            /\ cslList' = w.cslList
            /\ csl' = EmptyCSL
            /\ err' = "nil"
            /\ content' = NoContent
            /\ readData' = EmptyData
            /\ output' = w.output
            /\ errors' = w.errors
            /\ stdout' = w.stdout
            /\ validated' = w.validated
            /\ data' = EmptyData
            /\ UNCHANGED list

Next == ConvertCall \/ ReadCall \/ WriteCall \/ WriteListCall

Spec == Init /\ [][Next]_vars

(***************************************************************************)
(* Properties.                                                             *)
(***************************************************************************)
\* csl is the conversion of data
Converted == op \in {"Convert", "Write"}

\* Write or WriteList returned
Gated == op \in {"Write", "WriteList"}

\* the positions of the contributors whose roles contain "Author"
AuthorPositions(contributors) ==
    { i \in 1..Len(contributors) :
        \E r \in 1..Len(contributors[i].ContributorRoles) :
            contributors[i].ContributorRoles[r] = Str("Author") }

\* the position of the k-th contributor whose roles contain "Author"
AuthorPosition(contributors, k) ==
    CHOOSE i \in AuthorPositions(contributors) :
        Cardinality({ j \in AuthorPositions(contributors) : j <= i }) = k

StructuredName(author) == author.Given /= <<>> \/ author.Family /= <<>>

LiteralName(author) == author.Literal /= <<>>

\* C1: Write and WriteList return either non-nil bytes with an empty error
\* list or nil bytes with a non-empty error list, never bytes with errors
\* and never nil bytes with no errors, whatever the validator answers.
C1_BytesOrErrors ==
    Gated => \/ output /= NilBytes /\ errors = <<>>
             \/ output = NilBytes /\ errors /= <<>>

C1_Witness ==
    /\ op = "Write"
    /\ data = ScenarioRecord
    /\ validated[1].document = MarshalCSL(csl)
    /\ output = NilBytes
    /\ Len(errors) = 2

\* C2: Convert emits one author per contributor whose roles contain
\* "Author", the k-th author being built from the k-th such contributor in
\* source order.
C2_AuthorsAreTheAuthorContributors ==
    Converted =>
        /\ Len(csl.Author) = Cardinality(AuthorPositions(data.Contributors))
        /\ \A k \in 1..Len(csl.Author) :
              csl.Author[k] =
                  AuthorOf(data.Contributors[AuthorPosition(data.Contributors, k)])

C2_Witness ==
    /\ op = "Convert"
    /\ Len(data.Contributors) = 2
    /\ AuthorPositions(data.Contributors) = {2}
    /\ data.Contributors[1].FamilyName = Str("Smith")
    /\ csl.Author = << [Given |-> <<>>, Family |-> <<>>, Literal |-> Str("AT&T")] >>

\* C3 as stated: every emitted author has exactly one of the structured
\* name and the literal name populated, chosen by family-name presence.
C3_ExactlyOneNamePopulated ==
    Converted =>
        \A k \in 1..Len(csl.Author) :
            LET author == csl.Author[k]
                contributor ==
                    data.Contributors[AuthorPosition(data.Contributors, k)]
            IN  /\ StructuredName(author) /= LiteralName(author)
                /\ StructuredName(author) = (contributor.FamilyName /= <<>>)

\* C3 as amended: a non-empty FamilyName gives Given and Family from the
\* contributor and an empty Literal; an empty FamilyName gives empty Given
\* and Family and the contributor's Name as Literal.  Never both names;
\* neither exactly when FamilyName and Name are both empty.
C3_NameChosenByFamilyName ==
    Converted =>
        \A k \in 1..Len(csl.Author) :
            LET author == csl.Author[k]
                contributor ==
                    data.Contributors[AuthorPosition(data.Contributors, k)]
            IN  /\ contributor.FamilyName /= <<>> =>
                      /\ author.Given = contributor.GivenName
                      /\ author.Family = contributor.FamilyName
                      /\ author.Literal = <<>>
                /\ contributor.FamilyName = <<>> =>
                      /\ author.Given = <<>>
                      /\ author.Family = <<>>
                      /\ author.Literal = contributor.Name
                /\ ~(StructuredName(author) /\ LiteralName(author))
                /\ (~StructuredName(author) /\ ~LiteralName(author))
                      <=> (contributor.FamilyName = <<>> /\ contributor.Name = <<>>)

C3_Witness ==
    /\ op = "Convert"
    /\ Len(csl.Author) = 2
    /\ csl.Author[1] = [Given |-> Str("A"), Family |-> Str("O\"Neil"), Literal |-> <<>>]
    /\ data.Contributors[1].Name = Str("A O\"Neil")
    /\ csl.Author[2] = [Given |-> <<>>, Family |-> <<>>, Literal |-> Str("AT&T")]

\* C4: the target type is "book" for Software with a version, else the
\* table entry of the type when there is one, else "Document"; it is never
\* empty.
C4_TargetType ==
    Converted =>
        /\ csl.Type =
              IF data.Type = Str("Software") /\ data.Version /= <<>> THEN Str("book")
              ELSE IF \E p \in CMToCSLPairs : p[1] = data.Type
              THEN CMToCSLMappings(data.Type)
              ELSE Str("Document")
        /\ csl.Type /= <<>>

C4_Witness ==
    /\ op = "Convert"
    /\ data.Type = Str("Software")
    /\ data.Version = Str("1.0")
    /\ csl.Type = Str("book")

\* C5: WriteList converts the records in input order, each on its own, and
\* validates the one encoded sequence, once, against the csl-data schema.
C5_ListInOrderValidatedOnce ==
    op = "WriteList" =>
        /\ Len(cslList) = Len(list)
        /\ \A i \in 1..Len(list) : cslList[i] = Convert(list[i]).csl
        /\ Len(validated) = 1
        /\ validated[1].schema = "csl-data"
        /\ validated[1].document.kind \in {"array", "null"}
        /\ Len(validated[1].document.items) = Len(list)
        /\ \A i \in 1..Len(list) :
              validated[1].document.items[i] = CSLMembers(Convert(list[i]).csl)

C5_Witness ==
    /\ op = "WriteList"
    /\ Len(list) = 2
    /\ list[1] = ScenarioRecord
    /\ list[2].Type = Str("Software")
    /\ output.kind = "array"
    /\ StringOf(output.items[1], "type") = Str("article-journal")
    /\ StringOf(output.items[2], "type") = Str("book")

\* Convert and json.Marshal fail in no call of Write or WriteList: nothing
\* is printed, and the one document validated is the encoding of what was
\* converted.
WriteNeverFails ==
    Gated =>
        /\ stdout = <<>>
        /\ Len(validated) = 1
        /\ validated[1].document =
              IF op = "Write" THEN MarshalCSL(csl) ELSE MarshalCSLList(cslList)

\* C7: Convert returns no error; empty Titles give an empty title, empty
\* Descriptions an empty abstract, an identifier without a DOI an empty DOI
\* field; the identifier is copied verbatim and the other fields are mapped.
C7_ConvertIsTotal ==
    op = "Convert" =>
        /\ err = "nil"
        /\ data.Titles = <<>> => csl.Title = <<>>
        /\ data.Titles /= <<>> => csl.Title = data.Titles[1].Title
        /\ data.Descriptions = <<>> => csl.Abstract = <<>>
        /\ data.Descriptions /= <<>> => csl.Abstract = data.Descriptions[1].Description
        /\ ValidateDOI(data.ID) = <<>> => csl.DOI = <<>>
        /\ csl.ID = data.ID
        /\ csl.ContainerTitle = data.Container.Title
        /\ csl.Issue = data.Container.Issue
        /\ csl.Volume = data.Container.Volume
        /\ csl.Page = Pages(data.Container)
        /\ csl.Language = data.Language
        /\ csl.URL = data.URL
        /\ csl.Publisher = data.Publisher.Name
        /\ csl.Version = data.Version

C7_Witness ==
    /\ op = "Convert"
    /\ data.ID = Str("<not-a-doi>")
    /\ data.Titles = <<>>
    /\ data.Descriptions = <<>>
    /\ data.Container.Title = Str("Journal")
    /\ csl.ID = Str("<not-a-doi>")
    /\ csl.DOI = <<>>
    /\ csl.Title = <<>>
    /\ csl.Abstract = <<>>
    /\ csl.Page = Str("10-19")

\* the record at hand was converted and the result, encoded, was read back
Reread ==
    /\ op = "Read"
    /\ csl = Convert(data).csl
    /\ content = UnmarshalContent(MarshalCSL(csl)).content

\* C8: converting a converted-and-reread record, rereading the result and
\* converting again gives the same bytes.
C8_RereadConvertIdempotent ==
    Reread =>
        LET first == MarshalCSL(Convert(readData).csl)
            again == Read(UnmarshalContent(first).content).data
        IN  MarshalCSL(Convert(again).csl) = first

C8_Witness ==
    /\ Reread
    /\ data = ScenarioRecord
    /\ content = [ID |-> Str("10.5555/12345678"), Title |-> Str("Example")]
    /\ readData = [EmptyData EXCEPT !.ID = Str("10.5555/12345678")]

\* the member of the encoded CSL value with this key is left out
Unset(key) == \A i \in 1..Len(CSLMembers(csl)) : CSLMembers(csl)[i][1] /= key

\* C9: each of issued, submitted and accessed is the date parts of its own
\* source date when that is non-empty, and unset when it is empty.
C9_DatesIndependent ==
    Converted =>
        /\ data.Date.Published /= <<>> => csl.Issued = GetDateParts(data.Date.Published)
        /\ data.Date.Published = <<>> => csl.Issued = NilMap /\ Unset(Str("issued"))
        /\ data.Date.Submitted /= <<>> => csl.Submitted = GetDateParts(data.Date.Submitted)
        /\ data.Date.Submitted = <<>> => csl.Submitted = NilMap /\ Unset(Str("submitted"))
        /\ data.Date.Accessed /= <<>> => csl.Accessed = GetDateParts(data.Date.Accessed)
        /\ data.Date.Accessed = <<>> => csl.Accessed = NilMap /\ Unset(Str("accessed"))

C9_Witness ==
    /\ op = "Convert"
    /\ data.Date.Published = Str("2020-05")
    /\ data.Date.Submitted = <<>>
    /\ data.Date.Accessed = Str("2020")
    /\ csl.Issued.entries =
          << <<Str("date-parts"), Slice(<< Slice(<<2020, 5>>) >>)>> >>
    /\ csl.Submitted = NilMap
    /\ csl.Accessed.entries =
          << <<Str("date-parts"), Slice(<< Slice(<<2020>>) >>)>> >>

\* C10: the keyword is the non-empty subjects, concatenated in source order
\* with no separator.
C10_KeywordConcatenation ==
    Converted =>
        csl.Keyword =
            Join(SelectSeq([i \in 1..Len(data.Subjects) |-> data.Subjects[i].Subject],
                           LAMBDA s : s /= <<>>), <<>>)

C10_Witness ==
    /\ op = "Convert"
    /\ data.Subjects = << [Subject |-> Str("b")], [Subject |-> <<>>], [Subject |-> Str("a")] >>
    /\ csl.Keyword = Str("ba")

=============================================================================
